---- MODULE Spec2Model ----
(***************************************************************************)
(* State-machine model of pysnow's QueryBuilder (pysnow/query_builder.py). *)
(* A builder is the record of its four attributes; every public method is  *)
(* an operator from a builder (and its arguments) to an outcome: the       *)
(* builder after the call, the exception raised ("" when none) and the     *)
(* value returned.  One action per public method applies it to the         *)
(* builder held in the variables.                                          *)
(***************************************************************************)
EXTENDS Integers, Sequences, FiniteSets, TLC

VARIABLES query, current_field, c_oper, l_oper, pre, call

vars == <<query, current_field, c_oper, l_oper, pre, call>>

\* Longest token sequence the model builds (the list itself is unbounded).
MaxQueryLen == 2

----------------------------------------------------------------------------
(* Python values: None, str, int, list, datetime *)

PyNone == [kind |-> "NoneType", s |-> "", n |-> 0, items |-> <<>>, dt |-> <<>>]
PyS(s) == [kind |-> "str", s |-> s, n |-> 0, items |-> <<>>, dt |-> <<>>]
PyI(n) == [kind |-> "int", s |-> "", n |-> n, items |-> <<>>, dt |-> <<>>]
PyL(items) == [kind |-> "list", s |-> "", n |-> 0, items |-> items, dt |-> <<>>]
PyDT(dt) == [kind |-> "datetime", s |-> "", n |-> 0, items |-> <<>>, dt |-> dt]

Digits == <<"0", "1", "2", "3", "4", "5", "6", "7", "8", "9">>

RECURSIVE NatToStr(_)
NatToStr(n) ==
    IF n < 10 THEN Digits[n + 1]
    ELSE NatToStr(n \div 10) \o Digits[(n % 10) + 1]

\* str(n) and '%d' % n for an int
IntToStr(n) == IF n < 0 THEN "-" \o NatToStr(0 - n) ELSE NatToStr(n)

\* zero-padded two-digit field of strftime (%m %d %H %M %S)
Pad2(n) == IF n < 10 THEN "0" \o NatToStr(n) ELSE NatToStr(n)

\* x.strftime('%Y-%m-%d %H:%M:%S') for dt = <<year, month, day, hour, minute, second>>
strftime(dt) ==
    NatToStr(dt[1]) \o "-" \o Pad2(dt[2]) \o "-" \o Pad2(dt[3]) \o " " \o
    Pad2(dt[4]) \o ":" \o Pad2(dt[5]) \o ":" \o Pad2(dt[6])

\* hasattr(x, 'strftime')
HasStrftime(v) == v.kind = "datetime"

\* Python truth value: `not x` is ~Truthy(x)
Truthy(v) ==
    CASE v.kind = "NoneType" -> FALSE
      [] v.kind = "str" -> v.s # ""
      [] v.kind = "int" -> v.n # 0
      [] v.kind = "list" -> v.items # <<>>
      [] OTHER -> TRUE

\* str(x) as used by '%s' and str.format for None, str and int
PyStr(v) ==
    CASE v.kind = "NoneType" -> "None"
      [] v.kind = "str" -> v.s
      [] v.kind = "int" -> IntToStr(v.n)
      [] v.kind = "datetime" -> strftime(v.dt)
      [] OTHER -> "[...]"

\* sep.join(strs) for a sequence of strings
RECURSIVE Join(_, _)
Join(sep, strs) ==
    IF strs = <<>> THEN ""
    ELSE IF Len(strs) = 1 THEN strs[1]
    ELSE strs[1] \o sep \o Join(sep, Tail(strs))

\* map(str, data)
MapStr(items) == [i \in 1..Len(items) |-> PyStr(items[i])]

----------------------------------------------------------------------------
(* Outcomes of a call *)

Return(b, v) == [b |-> b, exc |-> "", ret |-> v]
Raise(b, e) == [b |-> b, exc |-> e, ret |-> ""]

\* QueryBuilder.__init__
NewBuilder ==
    [query |-> <<>>, current_field |-> PyNone, c_oper |-> PyNone, l_oper |-> PyNone]

\* _add_condition testing the operand type before the current field
add_condition_TypeCheckFirst(b, caller, operator, operand, types) ==
    IF operand.kind \notin types THEN Raise(b, "QueryTypeError")
    ELSE IF ~Truthy(b.current_field) THEN Raise(b, "QueryMissingField")
    ELSE IF Truthy(b.c_oper) THEN Raise(b, "QueryMultipleExpressions")
    ELSE Return([b EXCEPT !.c_oper = PyS(caller),
                          !.query = Append(@, PyStr(b.current_field) \o operator
                                                \o PyStr(operand))], "self")

\* _add_condition without the pending-condition check
add_condition_NoPendingCheck(b, caller, operator, operand, types) ==
    IF ~Truthy(b.current_field) THEN Raise(b, "QueryMissingField")
    ELSE IF operand.kind \notin types THEN Raise(b, "QueryTypeError")
    ELSE Return([b EXCEPT !.c_oper = PyS(caller),
                          !.query = Append(@, PyStr(b.current_field) \o operator
                                                \o PyStr(operand))], "self")

\* _add_condition recording the caller in c_oper before the pending-condition check
add_condition_MarksBeforeCheck(b, caller, operator, operand, types) ==
    IF ~Truthy(b.current_field) THEN Raise(b, "QueryMissingField")
    ELSE IF operand.kind \notin types THEN Raise(b, "QueryTypeError")
    ELSE IF Truthy(b.c_oper)
    THEN Raise([b EXCEPT !.c_oper = PyS(caller)], "QueryMultipleExpressions")
    ELSE Return([b EXCEPT !.c_oper = PyS(caller),
                          !.query = Append(@, PyStr(b.current_field) \o operator
                                                \o PyStr(operand))], "self")

\* QueryBuilder._add_condition; caller is the co_name of the calling frame
add_condition(b, caller, operator, operand, types) ==
    IF ~Truthy(b.current_field) THEN Raise(b, "QueryMissingField")
    ELSE IF operand.kind \notin types THEN Raise(b, "QueryTypeError")
    ELSE IF Truthy(b.c_oper) THEN Raise(b, "QueryMultipleExpressions")
    ELSE Return([b EXCEPT !.c_oper = PyS(caller),
                          !.query = Append(@, PyStr(b.current_field) \o operator
                                                \o PyStr(operand))], "self")

\* _add_logical_operator testing the current field instead of the pending condition
add_logical_operator_ChecksField(b, caller, operator) ==
    IF ~Truthy(b.current_field) THEN Raise(b, "QueryExpressionError")
    ELSE Return([b EXCEPT !.current_field = PyNone,
                          !.c_oper = PyNone,
                          !.l_oper = PyS(caller),
                          !.query = Append(@, operator)], "self")

\* _add_logical_operator leaving the current field selected
add_logical_operator_KeepsField(b, caller, operator) ==
    IF ~Truthy(b.c_oper) THEN Raise(b, "QueryExpressionError")
    ELSE Return([b EXCEPT !.c_oper = PyNone,
                          !.l_oper = PyS(caller),
                          !.query = Append(@, operator)], "self")

\* _add_logical_operator inserting the operator at the head of the list
add_logical_operator_Prepends(b, caller, operator) ==
    IF ~Truthy(b.c_oper) THEN Raise(b, "QueryExpressionError")
    ELSE Return([b EXCEPT !.current_field = PyNone,
                          !.c_oper = PyNone,
                          !.l_oper = PyS(caller),
                          !.query = <<operator>> \o @], "self")

\* _add_logical_operator leaving the pending-condition marker set
add_logical_operator_KeepsMarker(b, caller, operator) ==
    IF ~Truthy(b.c_oper) THEN Raise(b, "QueryExpressionError")
    ELSE Return([b EXCEPT !.current_field = PyNone,
                          !.l_oper = PyS(caller),
                          !.query = Append(@, operator)], "self")

\* QueryBuilder._add_logical_operator
add_logical_operator(b, caller, operator) ==
    IF ~Truthy(b.c_oper) THEN Raise(b, "QueryExpressionError")
    ELSE Return([b EXCEPT !.current_field = PyNone,
                          !.c_oper = PyNone,
                          !.l_oper = PyS(caller),
                          !.query = Append(@, operator)], "self")

AND(b) == add_logical_operator(b, "AND", "^")
OR(b) == add_logical_operator(b, "OR", "^OR")
NQ(b) == add_logical_operator(b, "NQ", "^NQ")

\* field() that also clears the pending-condition marker
field_ClearsCondition(b, f) ==
    Return([b EXCEPT !.current_field = f, !.c_oper = PyNone], "self")

field(b, f) == Return([b EXCEPT !.current_field = f], "self")

order_descending(b) ==
    add_condition(b, "order_descending", "ORDERBYDESC" \o PyStr(b.current_field),
                  PyS(""), {"str"})

order_ascending(b) ==
    add_condition(b, "order_ascending", "ORDERBY" \o PyStr(b.current_field),
                  PyS(""), {"str"})

starts_with(b, v) == add_condition(b, "starts_with", "STARTSWITH", v, {"str"})
ends_with(b, v) == add_condition(b, "ends_with", "ENDSWITH", v, {"str"})
contains(b, v) == add_condition(b, "contains", "LIKE", v, {"str"})
not_contains(b, v) == add_condition(b, "not_contains", "NOTLIKE", v, {"str"})
is_empty(b) == add_condition(b, "is_empty", "ISEMPTY", PyS(""), {"str", "int"})

\* equals() emitting `=` for a list as it does for a str
equals_ListAsEquals(b, data) ==
    IF data.kind = "str"
    THEN add_condition(b, "equals", "=", data, {"int", "str"})
    ELSE IF data.kind = "list"
    THEN add_condition(b, "equals", "=", PyS(Join(",", MapStr(data.items))), {"str"})
    ELSE Raise(b, "QueryTypeError")

equals(b, data) ==
    IF data.kind = "str"
    THEN add_condition(b, "equals", "=", data, {"int", "str"})
    ELSE IF data.kind = "list"
    THEN add_condition(b, "equals", "IN", PyS(Join(",", MapStr(data.items))), {"str"})
    ELSE Raise(b, "QueryTypeError")

\* ",".join(data) raises the builtin TypeError on an item that is not a str
not_equals(b, data) ==
    IF data.kind = "str"
    THEN add_condition(b, "not_equals", "!=", data, {"int", "str"})
    ELSE IF data.kind = "list"
    THEN IF \A i \in 1..Len(data.items) : data.items[i].kind = "str"
         THEN add_condition(b, "not_equals", "NOT IN",
                            PyS(Join(",", [i \in 1..Len(data.items) |-> data.items[i].s])),
                            {"str"})
         ELSE Raise(b, "TypeError")
    ELSE Raise(b, "QueryTypeError")

\* greater_than() without its rejection of a str operand
greater_than_AcceptsText(b, v) ==
    IF HasStrftime(v)
    THEN add_condition(b, "greater_than", ">", PyS(strftime(v.dt)), {"int", "str"})
    ELSE add_condition(b, "greater_than", ">", v, {"int", "str"})

greater_than(b, v) ==
    IF HasStrftime(v)
    THEN add_condition(b, "greater_than", ">", PyS(strftime(v.dt)), {"int", "str"})
    ELSE IF v.kind = "str" THEN Raise(b, "QueryTypeError")
    ELSE add_condition(b, "greater_than", ">", v, {"int", "str"})

less_than(b, v) ==
    IF HasStrftime(v)
    THEN add_condition(b, "less_than", "<", PyS(strftime(v.dt)), {"int", "str"})
    ELSE IF v.kind = "str" THEN Raise(b, "QueryTypeError")
    ELSE add_condition(b, "less_than", "<", v, {"int", "str"})

\* between() formatting end before start
between_Swapped(b, start, end) ==
    IF HasStrftime(start) /\ HasStrftime(end)
    THEN add_condition(b, "between", "BETWEEN",
                       PyS("javascript:gs.dateGenerate(\"" \o strftime(end.dt) \o "\")"
                           \o "@" \o
                           "javascript:gs.dateGenerate(\"" \o strftime(start.dt) \o "\")"),
                       {"str"})
    ELSE IF start.kind = "int" /\ end.kind = "int"
    THEN add_condition(b, "between", "BETWEEN",
                       PyS(IntToStr(end.n) \o "@" \o IntToStr(start.n)), {"str"})
    ELSE Raise(b, "QueryTypeError")

between(b, start, end) ==
    IF HasStrftime(start) /\ HasStrftime(end)
    THEN add_condition(b, "between", "BETWEEN",
                       PyS("javascript:gs.dateGenerate(\"" \o strftime(start.dt) \o "\")"
                           \o "@" \o
                           "javascript:gs.dateGenerate(\"" \o strftime(end.dt) \o "\")"),
                       {"str"})
    ELSE IF start.kind = "int" /\ end.kind = "int"
    THEN add_condition(b, "between", "BETWEEN",
                       PyS(IntToStr(start.n) \o "@" \o IntToStr(end.n)), {"str"})
    ELSE Raise(b, "QueryTypeError")

\* __str__ raising QueryMissingField for a field left without a condition
Str_MissingFieldForNoCondition(b) ==
    IF Len(b.query) = 0 THEN Raise(b, "QueryEmpty")
    ELSE IF b.current_field = PyNone THEN Raise(b, "QueryExpressionError")
    ELSE IF b.c_oper = PyNone THEN Raise(b, "QueryMissingField")
    ELSE Return(b, Join("", b.query))

\* __str__ testing c_oper before current_field
Str_ConditionCheckBeforeField(b) ==
    IF Len(b.query) = 0 THEN Raise(b, "QueryEmpty")
    ELSE IF b.c_oper = PyNone THEN Raise(b, "QueryExpressionError")
    ELSE IF b.current_field = PyNone THEN Raise(b, "QueryMissingField")
    ELSE Return(b, Join("", b.query))

\* __str__ testing current_field before the empty check
Str_FieldCheckBeforeEmpty(b) ==
    IF b.current_field = PyNone THEN Raise(b, "QueryMissingField")
    ELSE IF Len(b.query) = 0 THEN Raise(b, "QueryEmpty")
    ELSE IF b.c_oper = PyNone THEN Raise(b, "QueryExpressionError")
    ELSE Return(b, Join("", b.query))

\* __str__ joining the tokens with the AND separator
Str_JoinWithCaret(b) ==
    IF Len(b.query) = 0 THEN Raise(b, "QueryEmpty")
    ELSE IF b.current_field = PyNone THEN Raise(b, "QueryMissingField")
    ELSE IF b.c_oper = PyNone THEN Raise(b, "QueryExpressionError")
    ELSE Return(b, Join("^", b.query))

\* __str__ emptying the builder once it has produced the string
Str_ResetsBuilder(b) ==
    IF Len(b.query) = 0 THEN Raise(b, "QueryEmpty")
    ELSE IF b.current_field = PyNone THEN Raise(b, "QueryMissingField")
    ELSE IF b.c_oper = PyNone THEN Raise(b, "QueryExpressionError")
    ELSE Return(NewBuilder, Join("", b.query))

\* __str__ without the missing-condition check
Str_NoConditionCheck(b) ==
    IF Len(b.query) = 0 THEN Raise(b, "QueryEmpty")
    ELSE IF b.current_field = PyNone THEN Raise(b, "QueryMissingField")
    ELSE Return(b, Join("", b.query))

\* __str__ testing the current field as _add_condition does (`not self.current_field`)
Str_TruthyFieldCheck(b) ==
    IF Len(b.query) = 0 THEN Raise(b, "QueryEmpty")
    ELSE IF ~Truthy(b.current_field) THEN Raise(b, "QueryMissingField")
    ELSE IF b.c_oper = PyNone THEN Raise(b, "QueryExpressionError")
    ELSE Return(b, Join("", b.query))

\* QueryBuilder.__str__
Str(b) ==
    IF Len(b.query) = 0 THEN Raise(b, "QueryEmpty")
    ELSE IF b.current_field = PyNone THEN Raise(b, "QueryMissingField")
    ELSE IF b.c_oper = PyNone THEN Raise(b, "QueryExpressionError")
    ELSE Return(b, Join("", b.query))

----------------------------------------------------------------------------
(* Arguments the callers pass *)

Fields == {PyS(""), PyS("f")}

Operands ==
    { PyS("a"), PyI(1), PyL(<<PyS("a"), PyS("b")>>), PyL(<<PyI(1), PyI(2)>>),
      PyDT(<<2016, 8, 1, 9, 0, 5>>), PyNone }

RangeOperands == { PyI(1), PyI(10), PyDT(<<2016, 8, 1, 9, 0, 5>>), PyS("a") }

----------------------------------------------------------------------------
(* The builder in use *)

Self ==
    [query |-> query, current_field |-> current_field, c_oper |-> c_oper,
     l_oper |-> l_oper]

Init ==
    /\ query = NewBuilder.query
    /\ current_field = NewBuilder.current_field
    /\ c_oper = NewBuilder.c_oper
    /\ l_oper = NewBuilder.l_oper
    /\ pre = NewBuilder
    /\ call = [op |-> "__init__", args |-> <<>>, exc |-> "", ret |-> ""]

\* One call of a method on the builder: out is the method's outcome on Self;
\* calls that would make the token sequence longer than cap are left out.
DoWithin(cap, op, args, out) ==
    /\ Len(out.b.query) <= cap
    /\ query' = out.b.query
    /\ current_field' = out.b.current_field
    /\ c_oper' = out.b.c_oper
    /\ l_oper' = out.b.l_oper
    /\ pre' = Self
    /\ call' = [op |-> op, args |-> args, exc |-> out.exc, ret |-> out.ret]

Do(op, args, out) == DoWithin(MaxQueryLen, op, args, out)

CallAND == Do("AND", <<>>, AND(Self))
CallOR == Do("OR", <<>>, OR(Self))
CallNQ == Do("NQ", <<>>, NQ(Self))
CallField == \E f \in Fields : Do("field", <<f>>, field(Self, f))
CallOrderDescending == Do("order_descending", <<>>, order_descending(Self))
CallOrderAscending == Do("order_ascending", <<>>, order_ascending(Self))
CallStartsWith == \E v \in Operands : Do("starts_with", <<v>>, starts_with(Self, v))
CallEndsWith == \E v \in Operands : Do("ends_with", <<v>>, ends_with(Self, v))
CallContains == \E v \in Operands : Do("contains", <<v>>, contains(Self, v))
CallNotContains == \E v \in Operands : Do("not_contains", <<v>>, not_contains(Self, v))
CallIsEmpty == Do("is_empty", <<>>, is_empty(Self))
CallEquals == \E v \in Operands : Do("equals", <<v>>, equals(Self, v))
CallNotEquals == \E v \in Operands : Do("not_equals", <<v>>, not_equals(Self, v))
CallGreaterThan == \E v \in Operands : Do("greater_than", <<v>>, greater_than(Self, v))
CallLessThan == \E v \in Operands : Do("less_than", <<v>>, less_than(Self, v))
CallBetween ==
    \E s \in RangeOperands, e \in RangeOperands :
        Do("between", <<s, e>>, between(Self, s, e))
CallStr == Do("__str__", <<>>, Str(Self))

Next ==
    \/ CallAND
    \/ CallOR
    \/ CallNQ
    \/ CallField
    \/ CallOrderDescending
    \/ CallOrderAscending
    \/ CallStartsWith
    \/ CallEndsWith
    \/ CallContains
    \/ CallNotContains
    \/ CallIsEmpty
    \/ CallEquals
    \/ CallNotEquals
    \/ CallGreaterThan
    \/ CallLessThan
    \/ CallBetween
    \/ CallStr

Spec == Init /\ [][Next]_vars

----------------------------------------------------------------------------
(* Chained queries: longer token sequences over named fields and the calls  *)
(* of the documented examples                                               *)

\* Longest token sequence of the chained runs.
MaxChainLen == 4

ChainFields == {PyS("priority"), PyS("state"), PyS("short_description")}

ChainTexts == {PyS("network"), PyS("server")}

ChainDo(op, args, out) == DoWithin(MaxChainLen, op, args, out)

ChainAND == ChainDo("AND", <<>>, AND(Self))
ChainOR == ChainDo("OR", <<>>, OR(Self))
ChainNQ == ChainDo("NQ", <<>>, NQ(Self))
ChainField == \E f \in ChainFields : ChainDo("field", <<f>>, field(Self, f))
ChainEquals == ChainDo("equals", <<PyS("1")>>, equals(Self, PyS("1")))
ChainNotEquals == ChainDo("not_equals", <<PyS("6")>>, not_equals(Self, PyS("6")))
ChainContains == \E v \in ChainTexts : ChainDo("contains", <<v>>, contains(Self, v))
ChainStr == ChainDo("__str__", <<>>, Str(Self))

ChainNext ==
    \/ ChainAND
    \/ ChainOR
    \/ ChainNQ
    \/ ChainField
    \/ ChainEquals
    \/ ChainNotEquals
    \/ ChainContains
    \/ ChainStr

ChainSpec == Init /\ [][ChainNext]_vars

----------------------------------------------------------------------------
(* Vocabulary of the properties *)

LogicalOps == {"AND", "OR", "NQ"}

LogicalTokens == {"^", "^OR", "^NQ"}

ConditionOps ==
    {"order_descending", "order_ascending", "starts_with", "ends_with", "contains",
     "not_contains", "is_empty", "equals", "not_equals", "greater_than", "less_than",
     "between"}

TypeErrors == {"QueryTypeError", "TypeError"}

\* The method named op called on builder b with the argument tuple args.
Invoke(b, op, args) ==
    CASE op = "AND" -> AND(b)
      [] op = "OR" -> OR(b)
      [] op = "NQ" -> NQ(b)
      [] op = "field" -> field(b, args[1])
      [] op = "order_descending" -> order_descending(b)
      [] op = "order_ascending" -> order_ascending(b)
      [] op = "starts_with" -> starts_with(b, args[1])
      [] op = "ends_with" -> ends_with(b, args[1])
      [] op = "contains" -> contains(b, args[1])
      [] op = "not_contains" -> not_contains(b, args[1])
      [] op = "is_empty" -> is_empty(b)
      [] op = "equals" -> equals(b, args[1])
      [] op = "not_equals" -> not_equals(b, args[1])
      [] op = "greater_than" -> greater_than(b, args[1])
      [] op = "less_than" -> less_than(b, args[1])
      [] op = "between" -> between(b, args[1], args[2])
      [] op = "__str__" -> Str(b)

\* The last call was a condition or ordering call made while a condition was pending.
SecondCondition == call.op \in ConditionOps /\ pre.c_oper # PyNone

----------------------------------------------------------------------------
\* C1 as stated: a condition or ordering call made while a condition is pending
\* (one accepted, no logical operator accepted since) raises
\* QueryMultipleExpressions, whichever call it is, and appends no token.
C1_AlwaysMultipleExpressions ==
    SecondCondition =>
        call.exc = "QueryMultipleExpressions" /\ query = pre.query

\* C1 amended: such a call is always rejected and leaves the builder as it was;
\* it raises QueryMultipleExpressions exactly when the same call would have been
\* accepted with no condition pending, and otherwise the QueryMissingField or
\* type error that the earlier checks raise.
C1_SecondConditionRejected ==
    SecondCondition =>
        /\ call.exc \in {"QueryMultipleExpressions", "QueryMissingField"} \cup TypeErrors
        /\ Self = pre
        /\ call.exc = "QueryMultipleExpressions"
              <=> Invoke([pre EXCEPT !.c_oper = PyNone], call.op, call.args).exc = ""

C1_Witness ==
    /\ call.op = "between"
    /\ pre.c_oper = PyS("equals")
    /\ pre.query = <<"f=a">>
    /\ call.exc = "QueryMultipleExpressions"
    /\ query = <<"f=a">>

\* C2: AND, OR and NQ called while no condition is pending (new builder, bare
\* field selection, right after a logical operator) raise QueryExpressionError
\* and leave the builder, its token sequence included, unchanged.
C2_LogicalOperatorNeedsCondition ==
    (call.op \in LogicalOps /\ pre.c_oper = PyNone) =>
        call.exc = "QueryExpressionError" /\ Self = pre

C2_Witness ==
    /\ call.op = "OR"
    /\ pre.l_oper = PyS("AND")
    /\ pre.query = <<"fISEMPTY", "^">>
    /\ pre.c_oper = PyNone
    /\ call.exc = "QueryExpressionError"
    /\ query = pre.query

\* The last call was __str__ on a builder with a field selected and no condition
\* attached to it.
FinalizedBareField ==
    call.op = "__str__" /\ pre.current_field # PyNone /\ pre.c_oper = PyNone

\* C3 as stated: finalization with a field selected but no condition attached
\* raises QueryMissingField, on a new builder and after condition, logical
\* operator, field selection.
C3_BareFieldRaisesMissingField ==
    FinalizedBareField => call.exc = "QueryMissingField"

\* C3 amended: finalization with a field selected but no condition attached
\* raises QueryEmpty when no token has been appended (bare field selection on a
\* new builder) and QueryExpressionError when tokens exist (condition, logical
\* operator, field selection); it changes nothing.
C3_BareFieldRaisesEmptyOrExpression ==
    FinalizedBareField =>
        /\ call.exc = IF pre.query = <<>> THEN "QueryEmpty" ELSE "QueryExpressionError"
        /\ Self = pre

C3_Witness ==
    /\ call.op = "__str__"
    /\ pre.query = <<"f=a", "^">>
    /\ pre.current_field = PyS("f")
    /\ pre.c_oper = PyNone
    /\ call.exc = "QueryExpressionError"

\* The last call was __str__ on a builder whose last accepted operation was a
\* logical operator: its token is last and no field has been selected since.
FinalizedAfterLogicalOperator ==
    /\ call.op = "__str__"
    /\ pre.query # <<>>
    /\ pre.query[Len(pre.query)] \in LogicalTokens
    /\ pre.current_field = PyNone

\* C4 as stated: finalization right after a logical operator raises
\* QueryExpressionError.
C4_TrailingOperatorRaisesExpressionRequired ==
    FinalizedAfterLogicalOperator => call.exc = "QueryExpressionError"

\* C4 amended: finalization right after a logical operator raises
\* QueryMissingField (the operator cleared the current field, and the field
\* check comes before the condition check).
C4_TrailingOperatorRaisesMissingField ==
    FinalizedAfterLogicalOperator => call.exc = "QueryMissingField" /\ Self = pre

C4_Witness ==
    /\ call.op = "__str__"
    /\ pre.query = <<"fLIKEa", "^OR">>
    /\ pre.l_oper = PyS("OR")
    /\ pre.current_field = PyNone
    /\ call.exc = "QueryMissingField"

\* C5: __str__ on a builder with no token raises QueryEmpty; the checks run in
\* the order empty, missing field, missing condition, and the first that fails
\* decides the exception; when none fails the call returns.
C5_FinalizationCheckOrder ==
    call.op = "__str__" =>
        call.exc = IF pre.query = <<>> THEN "QueryEmpty"
                   ELSE IF pre.current_field = PyNone THEN "QueryMissingField"
                   ELSE IF pre.c_oper = PyNone THEN "QueryExpressionError"
                   ELSE ""

\* all three checks would fail; the empty check decides
C5_Witness ==
    /\ call.op = "__str__"
    /\ pre.query = <<>>
    /\ pre.current_field = PyNone
    /\ pre.c_oper = PyNone
    /\ call.exc = "QueryEmpty"

\* The last call was a condition or ordering call on a builder with no current field.
ConditionWithoutField == call.op \in ConditionOps /\ pre.current_field = PyNone

\* The method rejects the operand itself, before it calls _add_condition.
RejectedByMethod(op, args) ==
    CASE op = "equals" -> args[1].kind \notin {"str", "list"}
      [] op = "not_equals" ->
            \/ args[1].kind \notin {"str", "list"}
            \/ /\ args[1].kind = "list"
               /\ \E i \in 1..Len(args[1].items) : args[1].items[i].kind # "str"
      [] op \in {"greater_than", "less_than"} -> args[1].kind = "str"
      [] op = "between" ->
            ~ \/ args[1].kind = "datetime" /\ args[2].kind = "datetime"
              \/ args[1].kind = "int" /\ args[2].kind = "int"
      [] OTHER -> FALSE

\* C6 as stated: every condition or ordering call made while no current field
\* is set raises QueryMissingField, whatever its operand.
C6_NoFieldAlwaysMissingField ==
    ConditionWithoutField => call.exc = "QueryMissingField"

\* C6 amended: such a call is always rejected and changes nothing; it raises
\* QueryMissingField unless the method itself rejects the operand before the
\* shared checks (equals and not_equals with an operand that is neither str nor
\* list, not_equals with a list holding a non-str item, greater_than and
\* less_than with a str, between with a pair that is neither two datetimes nor
\* two ints), which raises a type error; within the shared checks the field
\* check comes before the operand-type check.
C6_NoFieldMissingFieldOrOwnTypeError ==
    ConditionWithoutField =>
        /\ Self = pre
        /\ IF RejectedByMethod(call.op, call.args)
           THEN call.exc \in TypeErrors
           ELSE call.exc = "QueryMissingField"

\* an operand the shared type check would refuse: the field check wins
C6_Witness ==
    /\ call.op = "starts_with"
    /\ call.args = <<PyI(1)>>
    /\ pre.current_field = PyNone
    /\ call.exc = "QueryMissingField"

\* C7 as stated: field() never fails, sets the current field, clears the
\* pending-condition marker and leaves the token sequence unchanged, so that a
\* condition after re-selecting a (non-empty) field is accepted.
C7_FieldClearsPendingCondition ==
    call.op = "field" =>
        /\ call.exc = ""
        /\ current_field = call.args[1]
        /\ c_oper = PyNone
        /\ query = pre.query
        /\ Truthy(current_field) => is_empty(Self).exc = ""

\* C7 amended: field() never fails, sets the current field and leaves the
\* pending-condition marker, the logical-operator marker and the token sequence
\* unchanged; so a condition attached after re-selecting a (non-empty) field is
\* accepted only if no condition was pending, and is rejected with
\* QueryMultipleExpressions if one was.
C7_FieldKeepsPendingCondition ==
    call.op = "field" =>
        /\ call.exc = ""
        /\ current_field = call.args[1]
        /\ c_oper = pre.c_oper
        /\ l_oper = pre.l_oper
        /\ query = pre.query
        /\ Truthy(current_field) =>
              is_empty(Self).exc =
                  IF pre.c_oper = PyNone THEN "" ELSE "QueryMultipleExpressions"

\* a field re-selected (from "" to "f") while the condition f=a is pending
C7_Witness ==
    /\ call.op = "field"
    /\ pre.query = <<"f=a">>
    /\ pre.c_oper = PyS("equals")
    /\ pre.current_field = PyS("")
    /\ current_field = PyS("f")
    /\ c_oper = PyS("equals")

\* C8: with a current field f set and no condition pending, order_ascending
\* appends exactly the token ORDERBYf and order_descending exactly ORDERBYDESCf,
\* and a condition is then pending.
C8_OrderingToken ==
    /\ (call.op = "order_ascending" /\ Truthy(pre.current_field) /\ pre.c_oper = PyNone)
          => /\ query = Append(pre.query, "ORDERBY" \o pre.current_field.s)
             /\ c_oper # PyNone
    /\ (call.op = "order_descending" /\ Truthy(pre.current_field) /\ pre.c_oper = PyNone)
          => /\ query = Append(pre.query, "ORDERBYDESC" \o pre.current_field.s)
             /\ c_oper # PyNone

\* The comma-joined stringified elements of the list operands, written out.
CommaJoined(v) ==
    CASE v = PyL(<<PyS("a"), PyS("b")>>) -> "a,b"
      [] v = PyL(<<PyI(1), PyI(2)>>) -> "1,2"
      [] OTHER -> Join(",", MapStr(v.items))

\* What select(f).equals(v) on a new builder did and what finalization then
\* gives, for the equals call just made with a field f for which ok(f).
EqualsThenStr(ok(_)) ==
    \A f \in Fields :
        (call.op = "equals" /\ ok(f) /\ pre = [NewBuilder EXCEPT !.current_field = f]) =>
            LET v == call.args[1] IN
            CASE v.kind = "str" ->
                    /\ call.exc = ""
                    /\ Str(Self) = Return(Self, f.s \o "=" \o v.s)
              [] v.kind = "list" ->
                    /\ call.exc = ""
                    /\ Str(Self) = Return(Self, f.s \o "IN" \o CommaJoined(v))
              [] OTHER ->
                    /\ call.exc = "QueryTypeError"
                    /\ Self = pre

AnyText(f) == TRUE

\* C9 as stated: for any text f, select(f).equals(v) on a new builder and then
\* finalization yields f=v for a text v and fIN<comma-joined elements> for a
\* list v; any other operand raises a type error.
C9_EqualsAnyField == EqualsThenStr(AnyText)

\* C9 amended: the same for any non-empty text f (with the empty text as field,
\* equals raises QueryMissingField for text and list operands).
C9_EqualsNonEmptyField == EqualsThenStr(Truthy)

C9_Witness ==
    /\ call.op = "equals"
    /\ call.args = <<PyL(<<PyI(1), PyI(2)>>)>>
    /\ pre = [NewBuilder EXCEPT !.current_field = PyS("f")]
    /\ query = <<"fIN1,2">>
    /\ Str(Self).ret = "fIN1,2"

\* QueryTypeError and the builtin TypeError count as the same kind of error.
ErrorKind(e) == IF e \in TypeErrors THEN "type error" ELSE e

\* C10: not_equals mirrors equals: in every builder state and for every operand
\* it is accepted exactly when equals would be, raises the same kind of error
\* when equals would be rejected, and on acceptance appends the fragment with
\* != for = and NOT IN for IN (elements comma-joined).
C10_NotEqualsMirrorsEquals ==
    call.op = "not_equals" =>
        LET v == call.args[1]
            e == equals(pre, v)
        IN /\ ErrorKind(call.exc) = ErrorKind(e.exc)
           /\ e.exc = "" =>
                 query = Append(pre.query,
                                pre.current_field.s \o
                                (IF v.kind = "str" THEN "!=" \o v.s
                                 ELSE "NOT IN" \o CommaJoined(v)))

\* The text of the int and datetime operands, written out.
Written(v) ==
    CASE v = PyI(1) -> "1"
      [] v = PyI(10) -> "10"
      [] v = PyDT(<<2016, 8, 1, 9, 0, 5>>) -> "2016-08-01 09:00:05"
      [] v = PyDT(<<1999, 12, 31, 23, 59, 0>>) -> "1999-12-31 23:59:00"
      [] OTHER -> PyStr(v)

FieldAwaitsCondition == Truthy(pre.current_field) /\ pre.c_oper = PyNone

\* C12: with a (non-empty) field f selected and no condition pending,
\* between(start, end) appends fBETWEEN<start>@<end> for two ints and
\* fBETWEENjavascript:gs.dateGenerate("<start>")@javascript:gs.dateGenerate("<end>")
\* for two datetimes; every mixed pair and every pair with an unsupported type
\* raises QueryTypeError and appends nothing (in every builder state).
C12_BetweenOperands ==
    /\ call.op = "between" =>
          LET start == call.args[1]
              end == call.args[2]
          IN IF start.kind = "int" /\ end.kind = "int"
             THEN FieldAwaitsCondition =>
                    /\ call.exc = ""
                    /\ query = Append(pre.query,
                                      pre.current_field.s \o "BETWEEN" \o Written(start)
                                        \o "@" \o Written(end))
             ELSE IF start.kind = "datetime" /\ end.kind = "datetime"
             THEN FieldAwaitsCondition =>
                    /\ call.exc = ""
                    /\ query = Append(pre.query,
                                      pre.current_field.s \o "BETWEEN"
                                        \o "javascript:gs.dateGenerate(\"" \o Written(start)
                                        \o "\")@javascript:gs.dateGenerate(\""
                                        \o Written(end) \o "\")")
             ELSE call.exc = "QueryTypeError" /\ Self = pre
    \* two different datetimes, from the builder as it now is
    /\ (Truthy(current_field) /\ c_oper = PyNone) =>
          between(Self, PyDT(<<2016, 8, 1, 9, 0, 5>>), PyDT(<<1999, 12, 31, 23, 59, 0>>))
            = Return([Self EXCEPT
                        !.c_oper = PyS("between"),
                        !.query = Append(@, current_field.s \o
                            "BETWEENjavascript:gs.dateGenerate(\"2016-08-01 09:00:05\")@javascript:gs.dateGenerate(\"1999-12-31 23:59:00\")")],
                     "self")

C12_Witness ==
    /\ call.op = "between"
    /\ call.args = <<PyI(1), PyI(10)>>
    /\ pre = [NewBuilder EXCEPT !.current_field = PyS("f")]
    /\ query = <<"fBETWEEN1@10">>

\* The tokens of q written one after the other, last token last.
RECURSIVE TokensInOrder(_)
TokensInOrder(q) ==
    IF q = <<>> THEN "" ELSE TokensInOrder(SubSeq(q, 1, Len(q) - 1)) \o q[Len(q)]

\* C13 (under ChainSpec): a finalization that succeeds returns the accepted
\* tokens in call order with nothing between, added or dropped, and leaves
\* them as they are; field(priority).equals(1).AND().field(state).not_equals(6)
\* gives priority=1^state!=6 and field(short_description).contains(network)
\* .OR().field(short_description).contains(server) gives
\* short_descriptionLIKEnetwork^ORshort_descriptionLIKEserver.
C13_StrConcatenatesTokens ==
    (call.op = "__str__" /\ call.exc = "") =>
        /\ call.ret = TokensInOrder(pre.query)
        /\ query = pre.query
        /\ pre.query = <<"priority=1", "^", "state!=6">>
              => call.ret = "priority=1^state!=6"
        /\ pre.query = <<"short_descriptionLIKEnetwork", "^OR", "short_descriptionLIKEserver">>
              => call.ret = "short_descriptionLIKEnetwork^ORshort_descriptionLIKEserver"

C13_Witness ==
    /\ call.op = "__str__"
    /\ pre.query = <<"short_descriptionLIKEnetwork", "^OR", "short_descriptionLIKEserver">>
    /\ pre.current_field = PyS("short_description")
    /\ call.ret = "short_descriptionLIKEnetwork^ORshort_descriptionLIKEserver"

\* Every call the model makes: method name and argument tuple.
CallsOffered ==
    {<<op, <<>>>> : op \in LogicalOps \cup
                           {"order_descending", "order_ascending", "is_empty", "__str__"}}
    \cup {<<"field", <<f>>>> : f \in Fields}
    \cup {<<op, <<v>>>> : op \in {"starts_with", "ends_with", "contains", "not_contains",
                                    "equals", "not_equals", "greater_than", "less_than"},
                          v \in Operands}
    \cup {<<"between", <<s, e>>>> : s \in RangeOperands, e \in RangeOperands}

\* C14: __str__ never changes the builder, whether it returns or raises: the
\* four attributes are as before, a second __str__ has the same outcome, and
\* every call has afterwards the outcome it would have had before.
C14_StrChangesNothing ==
    call.op = "__str__" =>
        /\ query = pre.query
        /\ current_field = pre.current_field
        /\ c_oper = pre.c_oper
        /\ l_oper = pre.l_oper
        /\ Str(Self) = [b |-> Self, exc |-> call.exc, ret |-> call.ret]
        /\ \A c \in CallsOffered : Invoke(Self, c[1], c[2]) = Invoke(pre, c[1], c[2])

C14_Witness ==
    /\ call.op = "__str__"
    /\ call.exc = ""
    /\ call.ret = "f=a"
    /\ pre.query = <<"f=a">>
    /\ Self = pre

\* C15: a call that raises (QueryMissingField, QueryTypeError or TypeError,
\* QueryMultipleExpressions, QueryExpressionError, QueryEmpty) leaves the four
\* attributes as they were; the pending-condition marker is set only by a call
\* that appends a token.
C15_RejectedCallChangesNothing ==
    /\ call.exc # "" => Self = pre
    /\ (c_oper # pre.c_oper /\ c_oper # PyNone) =>
          /\ call.exc = ""
          /\ Len(query) = Len(pre.query) + 1
          /\ SubSeq(query, 1, Len(pre.query)) = pre.query

C15_Witness ==
    /\ call.op = "is_empty"
    /\ call.exc = "QueryMultipleExpressions"
    /\ pre.c_oper = PyS("equals")
    /\ pre.query = <<"f=a">>
    /\ c_oper = PyS("equals")
    /\ query = <<"f=a">>

\* The token each logical operator appends.
TokenOf(op) ==
    CASE op = "AND" -> "^"
      [] op = "OR" -> "^OR"
      [] op = "NQ" -> "^NQ"

\* An accepted AND, OR or NQ appends its one token, clears the current field and
\* the pending-condition marker and records its name in l_oper.
LogicalOperatorEffect ==
    (call.op \in LogicalOps /\ call.exc = "") =>
        /\ query = Append(pre.query, TokenOf(call.op))
        /\ current_field = PyNone
        /\ c_oper = PyNone
        /\ l_oper = PyS(call.op)

\* The last call was made with a logical operator as the last token.
AfterLogicalOperator ==
    pre.query # <<>> /\ pre.query[Len(pre.query)] \in LogicalTokens

\* Until a condition is accepted after a logical operator, the marker stays
\* cleared and AND, OR and NQ raise QueryExpressionError.
LogicalOperatorNeedsNewCondition ==
    /\ (query # <<>> /\ query[Len(query)] \in LogicalTokens) => c_oper = PyNone
    /\ (call.op \in LogicalOps /\ AfterLogicalOperator) =>
          call.exc = "QueryExpressionError" /\ Self = pre

\* C16 as stated: the effect of an accepted AND, OR or NQ; from then until a
\* field is selected every condition or ordering call raises QueryMissingField,
\* and until a condition is accepted every logical operator raises
\* QueryExpressionError.
C16_AfterOperatorAlwaysMissingField ==
    /\ LogicalOperatorEffect
    /\ LogicalOperatorNeedsNewCondition
    /\ (call.op \in ConditionOps /\ AfterLogicalOperator /\ pre.current_field = PyNone) =>
          call.exc = "QueryMissingField"

\* C16 amended: the same, except that until a field is selected a condition or
\* ordering call is rejected with QueryMissingField unless the method rejects
\* its operand itself (see C6), which raises a type error; either way the
\* builder is unchanged.
C16_AfterOperatorRejected ==
    /\ LogicalOperatorEffect
    /\ LogicalOperatorNeedsNewCondition
    /\ (call.op \in ConditionOps /\ AfterLogicalOperator /\ pre.current_field = PyNone) =>
          /\ Self = pre
          /\ IF RejectedByMethod(call.op, call.args)
             THEN call.exc \in TypeErrors
             ELSE call.exc = "QueryMissingField"

C16_Witness ==
    /\ call.op = "contains"
    /\ call.args = <<PyS("a")>>
    /\ pre.query = <<"fISEMPTY", "^NQ">>
    /\ pre.l_oper = PyS("NQ")
    /\ pre.current_field = PyNone
    /\ call.exc = "QueryMissingField"

C18_TokensAlternate ==
    /\ \A i \in 1..Len(query) : (query[i] \in LogicalTokens) <=> (i % 2 = 0)
    /\ (c_oper # PyNone) <=> (query # <<>> /\ query[Len(query)] \notin LogicalTokens)

\* a field re-selected after the third token, the condition still pending
C18_Witness ==
    /\ call.op = "field"
    /\ query = <<"priority=1", "^", "state!=6">>
    /\ pre.current_field = PyS("state")
    /\ current_field = PyS("priority")
    /\ c_oper = PyS("not_equals")

\* C19 (under ChainSpec, whose field names are non-empty): __str__ returns a
\* string exactly when the token sequence is non-empty and its last token is
\* a condition, however many fields were selected after it, and raises
\* otherwise; a returned string has an odd number of tokens and neither its
\* first nor its last token is a logical operator.
C19_StrReturnsIffEndsWithCondition ==
    call.op = "__str__" =>
        /\ call.exc = ""
              <=> (pre.query # <<>> /\ pre.query[Len(pre.query)] \notin LogicalTokens)
        /\ call.exc = "" =>
              /\ Len(pre.query) % 2 = 1
              /\ pre.query[1] \notin LogicalTokens
              /\ call.ret = TokensInOrder(pre.query)

\* the field re-selected after the last condition
C19_Witness ==
    /\ call.op = "__str__"
    /\ call.exc = ""
    /\ pre.query = <<"priority=1", "^NQ", "stateLIKEserver">>
    /\ pre.current_field = PyS("short_description")
    /\ call.ret = "priority=1^NQstateLIKEserver"

\* With the empty text selected as field, __str__ passes its missing-field
\* check: it raises only for an empty sequence or a missing condition, and
\* after a condition it returns the string.
StrWithEmptyField ==
    (call.op = "__str__" /\ pre.current_field = PyS("")) =>
        /\ call.exc # "QueryMissingField"
        /\ pre.c_oper # PyNone =>
              call.exc = "" /\ call.ret = TokensInOrder(pre.query)

\* C20 as stated: with the empty text selected as field every condition or
\* ordering call raises QueryMissingField and appends nothing, while __str__
\* takes the field as selected, so that after field f, condition, field('')
\* it still returns the string.
C20_EmptyFieldAlwaysMissingField ==
    /\ StrWithEmptyField
    /\ (call.op \in ConditionOps /\ pre.current_field = PyS("")) =>
          call.exc = "QueryMissingField" /\ Self = pre

\* C20 amended: the same, except that a condition call whose operand the
\* method rejects itself (see C6) raises a type error instead of
\* QueryMissingField; it appends nothing either way.
C20_EmptyFieldRejectsConditions ==
    /\ StrWithEmptyField
    /\ (call.op \in ConditionOps /\ pre.current_field = PyS("")) =>
          /\ Self = pre
          /\ IF RejectedByMethod(call.op, call.args)
             THEN call.exc \in TypeErrors
             ELSE call.exc = "QueryMissingField"

\* field f, condition, field(''), __str__
C20_Witness ==
    /\ call.op = "__str__"
    /\ pre.current_field = PyS("")
    /\ pre.query = <<"fLIKEa">>
    /\ pre.c_oper = PyS("contains")
    /\ call.exc = ""
    /\ call.ret = "fLIKEa"

====
